---- MODULE Spec2Model ----
(***************************************************************************)
(* Email Filter & Dashboard (src/email_filter_dashboard.py, demo_data.py). *)
(*                                                                         *)
(* Six specifications:                                                     *)
(*   SessionSpec  one call of fetch_real_emails against a scripted IMAP    *)
(*                server (the retrieval as a function of its inputs);      *)
(*   Spec         the form, fetch_emails, the worker threads it starts     *)
(*                and the after() queue of the foreground (Tk) thread;     *)
(*   DashSpec     retrievals with the credential fields left empty, over   *)
(*                two ranges and one at a time, and the dashboard with its *)
(*                filter, its debounce timers and its table;               *)
(*   NormalizeSpec  the per-message body of the fetch loop applied to      *)
(*                messages with bodies of every length around the limits;  *)
(*   DemoSpec     load_demo_emails_between applied to every dataset and    *)
(*                range of its inputs;                                     *)
(*   QuerySpec    apply_search_filter applied once to every collection,    *)
(*                search text and scope of its inputs (the query as a      *)
(*                function of its inputs).                                 *)
(*                                                                         *)
(* A Python str is modelled as a sequence of one-character strings, a      *)
(* datetime as <<year, month, day, second-of-day>>, a raised exception as  *)
(* a record [type, text] whose text is a sequence of words.                *)
(***************************************************************************)
EXTENDS Integers, Sequences, FiniteSets, TLC

(***************************************************************************)
(* Bounds of the model.                                                    *)
(***************************************************************************)
\* longest mailbox (number of identifiers a search returns) in SessionSpec
MaxMsgs == 3
\* number of fetch_emails calls that pass validation in one run
MaxFetches == 2
\* longest collection a query is evaluated on in QuerySpec
MaxRecords == 2

(***************************************************************************)
(* str helpers.                                                            *)
(***************************************************************************)
IsSpace(c) == c \in {" ", "\t", "\n"}

RECURSIVE LStrip(_)
LStrip(s) == IF s # <<>> /\ IsSpace(Head(s)) THEN LStrip(Tail(s)) ELSE s

RECURSIVE RStrip(_)
RStrip(s) ==
    IF s # <<>> /\ IsSpace(s[Len(s)]) THEN RStrip(SubSeq(s, 1, Len(s) - 1)) ELSE s

\* a strip that strips nothing
StripNothing(s) == s

\* str.strip()
Strip(s) == RStrip(LStrip(s))

\* s[:n]
Take(s, n) == SubSeq(s, 1, IF Len(s) < n THEN Len(s) ELSE n)

(***************************************************************************)
(* datetime: <<y, m, d, t>>, naive, compared field by field.               *)
(***************************************************************************)
IsLeap(y) == (y % 4 = 0) /\ ((y % 100 # 0) \/ (y % 400 = 0))

DaysInMonth(y, m) ==
    IF m = 2 THEN (IF IsLeap(y) THEN 29 ELSE 28)
    ELSE IF m \in {4, 6, 9, 11} THEN 30 ELSE 31

DtLess(a, b) ==
    \/ a[1] < b[1]
    \/ a[1] = b[1] /\ a[2] < b[2]
    \/ a[1] = b[1] /\ a[2] = b[2] /\ a[3] < b[3]
    \/ a[1] = b[1] /\ a[2] = b[2] /\ a[3] = b[3] /\ a[4] < b[4]

\* datetime.strptime(text, '%Y-%m-%d'): the text is given as its fields split
\* at '-'; anything but three fields forming a calendar date raises ValueError.
StrPTime(text) ==
    IF /\ Len(text) = 3
       /\ text[1] \in 1..9999
       /\ text[2] \in 1..12
       /\ text[3] >= 1
       /\ text[3] <= DaysInMonth(text[1], text[2])
    THEN [raised |-> FALSE, value |-> <<text[1], text[2], text[3], 0>>]
    ELSE [raised |-> TRUE, value |-> <<0, 0, 0, 0>>]

\* a day increment that takes every February to have 28 days
AddOneDayNoLeap(dt) ==
    IF dt[3] < (IF dt[2] = 2 THEN 28 ELSE DaysInMonth(dt[1], dt[2]))
    THEN [raised |-> FALSE, value |-> <<dt[1], dt[2], dt[3] + 1, dt[4]>>]
    ELSE IF dt[2] < 12
    THEN [raised |-> FALSE, value |-> <<dt[1], dt[2] + 1, 1, dt[4]>>]
    ELSE IF dt[1] < 9999
    THEN [raised |-> FALSE, value |-> <<dt[1] + 1, 1, 1, dt[4]>>]
    ELSE [raised |-> TRUE, value |-> <<0, 0, 0, 0>>]

\* dt + timedelta(days=1); OverflowError past datetime.MAXYEAR
AddOneDay(dt) ==
    IF dt[3] < DaysInMonth(dt[1], dt[2])
    THEN [raised |-> FALSE, value |-> <<dt[1], dt[2], dt[3] + 1, dt[4]>>]
    ELSE IF dt[2] < 12
    THEN [raised |-> FALSE, value |-> <<dt[1], dt[2] + 1, 1, dt[4]>>]
    ELSE IF dt[1] < 9999
    THEN [raised |-> FALSE, value |-> <<dt[1] + 1, 1, 1, dt[4]>>]
    ELSE [raised |-> TRUE, value |-> <<0, 0, 0, 0>>]

\* dt - timedelta(days=1); OverflowError before datetime.MINYEAR
SubOneDay(dt) ==
    IF dt[3] > 1
    THEN [raised |-> FALSE, value |-> <<dt[1], dt[2], dt[3] - 1, dt[4]>>]
    ELSE IF dt[2] > 1
    THEN [raised |-> FALSE,
          value |-> <<dt[1], dt[2] - 1, DaysInMonth(dt[1], dt[2] - 1), dt[4]>>]
    ELSE IF dt[1] > 1
    THEN [raised |-> FALSE, value |-> <<dt[1] - 1, 12, 31, dt[4]>>]
    ELSE [raised |-> TRUE, value |-> <<0, 0, 0, 0>>]

\* dt + timedelta(seconds=delta)
RECURSIVE AddSeconds(_, _)
AddSeconds(dt, delta) ==
    IF dt[4] + delta >= 86400
    THEN IF AddOneDay(dt).raised THEN AddOneDay(dt)
         ELSE AddSeconds(AddOneDay(dt).value, delta - 86400)
    ELSE IF dt[4] + delta < 0
    THEN IF SubOneDay(dt).raised THEN SubOneDay(dt)
         ELSE AddSeconds(SubOneDay(dt).value, delta + 86400)
    ELSE [raised |-> FALSE, value |-> <<dt[1], dt[2], dt[3], dt[4] + delta>>]

\* the UTC offset, in seconds, of the zone the program runs in
LocalUtcOffset == 3600

\* msg_dt.astimezone(tz=None).replace(tzinfo=None) of an aware datetime
\* whose UTC offset is offset seconds
AsLocalNaive(dt, offset) == AddSeconds(dt, LocalUtcOffset - offset)

MonthAbbr(m) ==
    <<"Jan", "Feb", "Mar", "Apr", "May", "Jun",
      "Jul", "Aug", "Sep", "Oct", "Nov", "Dec">>[m]

\* dt.strftime('%d-%b-%Y'): the three fields of the IMAP date
StrFTime(dt) == <<dt[3], MonthAbbr(dt[2]), dt[1]>>

\* the calendar day an IMAP date-text names (the server's reading of it)
ImapDay(s) == <<s[3], CHOOSE m \in 1..12 : MonthAbbr(m) = s[2], s[1]>>

(***************************************************************************)
(* Exceptions.                                                             *)
(***************************************************************************)
NoExc == [type |-> "", text |-> <<>>]

Exc(type, text) == [type |-> type, text |-> text]

\* the classes caught by "except imaplib.IMAP4.error" (IMAP4.abort and
\* IMAP4.readonly derive from it)
IsImapError(e) == e.type \in {"IMAP4.error", "IMAP4.abort"}

(***************************************************************************)
(* Message Normalizer.                                                     *)
(***************************************************************************)
MAX_LEN == 2000

KnownCodecs == {"utf-8", "iso-8859-1", "us-ascii"}

\* decode_header(header_value): header is [present, parts], a part is
\* [bytes, encoding, text]; bytes.decode(encoding) raises LookupError for a
\* charset Python does not know.
RECURSIVE DecodeParts(_, _)
DecodeParts(parts, acc) ==
    IF parts = <<>> THEN [raised |-> FALSE, value |-> acc, exc |-> NoExc]
    ELSE LET p == Head(parts) IN
         IF p.bytes /\ p.encoding # "" /\ p.encoding \notin KnownCodecs
         THEN [raised |-> TRUE, value |-> <<>>,
               exc |-> Exc("LookupError", <<"unknown", "encoding">>)]
         ELSE DecodeParts(Tail(parts), acc \o p.text)

decode_header(h) ==
    IF ~h.present THEN [raised |-> FALSE, value |-> <<>>, exc |-> NoExc]
    ELSE DecodeParts(h.parts, <<>>)

\* position of the first c in s, 0 when there is none
RECURSIVE IndexFrom(_, _, _)
IndexFrom(s, c, i) ==
    IF i > Len(s) THEN 0 ELSE IF s[i] = c THEN i ELSE IndexFrom(s, c, i + 1)

\* email.utils.parseaddr on "Name <addr>" or a bare "addr"
parseaddr(s) ==
    LET lt == IndexFrom(s, "<", 1)
        gt == IndexFrom(s, ">", 1)
    IN IF lt > 0 /\ gt > lt
       THEN [name |-> Strip(SubSeq(s, 1, lt - 1)), addr |-> SubSeq(s, lt + 1, gt - 1)]
       ELSE [name |-> <<>>, addr |-> Strip(s)]

\* parse_sender(from_header): the display name falls back to the address
parse_sender(from_header) ==
    LET pa == parseaddr(from_header)
    IN [name |-> IF pa.name # <<>> THEN Strip(pa.name) ELSE pa.addr,
        addr |-> pa.addr]

\* the multipart loop of extract_email_body: an exception raised by a part
\* leaves the loop and keeps the chunks collected so far
RECURSIVE WalkParts(_, _, _)
WalkParts(parts, remaining, chunks) ==
    IF parts = <<>> THEN chunks
    ELSE LET part == Head(parts) IN
         IF part.ctype # "text/plain" THEN WalkParts(Tail(parts), remaining, chunks)
         ELSE IF part.raises THEN chunks
         ELSE IF part.payload = <<>> THEN WalkParts(Tail(parts), remaining, chunks)
         ELSE IF Len(part.payload) >= remaining
              THEN chunks \o Take(part.payload, remaining)
              ELSE WalkParts(Tail(parts), remaining - Len(part.payload),
                             chunks \o part.payload)

extract_email_body(m) ==
    IF m.multipart THEN WalkParts(m.parts, MAX_LEN, <<>>)
    ELSE IF m.parts = <<>> \/ m.parts[1].raises THEN <<>>
    ELSE Take(m.parts[1].payload, MAX_LEN)

\* 'body': body[:200] + '...' if len(body) > 200 else body
BodyPreview(body) ==
    IF Len(body) > 200 THEN Take(body, 200) \o <<".", ".", ".">> ELSE body

\* the Date header: absent, unparsable (parsedate_to_datetime raises), or a
\* naive local datetime
\* a reading of the Date header that drops the zone without converting
msg_dt_zone_dropped(m) ==
    IF m.date.kind = "ok" THEN [none |-> FALSE, dt |-> m.date.dt]
    ELSE [none |-> TRUE, dt |-> <<0, 0, 0, 0>>]

msg_dt(m) ==
    IF m.date.kind # "ok" THEN [none |-> TRUE, dt |-> <<0, 0, 0, 0>>]
    ELSE IF ~m.date.aware THEN [none |-> FALSE, dt |-> m.date.dt]
    ELSE IF AsLocalNaive(m.date.dt, m.date.offset).raised
    THEN [none |-> TRUE, dt |-> <<0, 0, 0, 0>>]
    ELSE [none |-> FALSE, dt |-> AsLocalNaive(m.date.dt, m.date.offset).value]

(***************************************************************************)
(* emails_data.sort(key=lambda x: x['date'], reverse=True): list.sort is   *)
(* stable, also with reverse=True.  Insertion after every element whose    *)
(* date is not older.                                                      *)
(***************************************************************************)
RECURSIVE InsertDesc(_, _)
InsertDesc(x, sorted) ==
    IF sorted = <<>> THEN <<x>>
    ELSE IF DtLess(Head(sorted).date, x.date) THEN <<x>> \o sorted
    ELSE <<Head(sorted)>> \o InsertDesc(x, Tail(sorted))

RECURSIVE SortInto(_, _)
SortInto(items, sorted) ==
    IF items = <<>> THEN sorted
    ELSE SortInto(Tail(items), InsertDesc(Head(items), sorted))

\* a sort that puts the later of two equal dates first (sorted ascending,
\* then reversed)
RECURSIVE InsertDescTiesReversed(_, _)
InsertDescTiesReversed(x, sorted) ==
    IF sorted = <<>> THEN <<x>>
    ELSE IF ~DtLess(x.date, Head(sorted).date) THEN <<x>> \o sorted
    ELSE <<Head(sorted)>> \o InsertDescTiesReversed(x, Tail(sorted))

RECURSIVE SortIntoTiesReversed(_, _)
SortIntoTiesReversed(items, sorted) ==
    IF items = <<>> THEN sorted
    ELSE SortIntoTiesReversed(Tail(items), InsertDescTiesReversed(Head(items), sorted))

SortByDateDescTiesReversed(items) == SortIntoTiesReversed(items, <<>>)

SortByDateDesc(items) == SortInto(items, <<>>)

(***************************************************************************)
(* Session Manager: fetch_real_emails against a scripted server.           *)
(*                                                                         *)
(* srv = [connect, login, select, search, mailbox] scripts what the server *)
(* answers; mailbox[i] is the message behind identifier i.  The result is  *)
(* [raised, exc, data, log, criteria, fetched, host]: what the call        *)
(* returned or raised, the commands it attempted on the session, the       *)
(* search criteria it sent and the identifiers it fetched.                 *)
(***************************************************************************)
get_server_config(server_var) ==
    IF server_var = "Outlook" THEN [host |-> "outlook.office365.com", port |-> 993]
    ELSE IF server_var = "Custom" THEN [host |-> "imap.example.com", port |-> 993]
    ELSE [host |-> "imap.gmail.com", port |-> 993]

\* what the server says when it rejects a login
LoginRejectText(how) ==
    IF how = "reject_tagged"
    THEN <<"[AUTHENTICATIONFAILED]", "Invalid", "credentials", "(Failure)">>
    ELSE <<"LOGIN", "failed.">>

\* a loop body that enforces the client-side date check: a message without
\* a usable date, or dated before the range start, is left out
ProcessMessageDateChecked(m, start_date) ==
    LET subject == decode_header(m.subject)
        from_header == decode_header(m.from)
        body == extract_email_body(m)
        sender == parse_sender(from_header.value)
        dt == msg_dt(m)
    IN IF m.fetch = "raise"
       THEN [kind |-> "raise", exc |-> Exc("IMAP4.abort", <<"socket", "error:", "EOF">>),
             rec |-> <<>>]
       ELSE IF m.fetch # "OK" THEN [kind |-> "skip", exc |-> NoExc, rec |-> <<>>]
       ELSE IF ~m.parses THEN [kind |-> "skip", exc |-> NoExc, rec |-> <<>>]
       ELSE IF dt.none \/ DtLess(dt.dt, start_date)
            THEN [kind |-> "skip", exc |-> NoExc, rec |-> <<>>]
       ELSE IF subject.raised THEN [kind |-> "raise", exc |-> subject.exc, rec |-> <<>>]
       ELSE IF from_header.raised
            THEN [kind |-> "raise", exc |-> from_header.exc, rec |-> <<>>]
       ELSE [kind |-> "record", exc |-> NoExc,
             rec |-> <<[name |-> sender.name,
                        email |-> sender.addr,
                        subject |-> subject.value,
                        body |-> BodyPreview(body),
                        date |-> dt.dt]>>]

\* one pass of the body of "for email_id in email_ids"
ProcessMessage(m, start_date) ==
    LET subject == decode_header(m.subject)
        from_header == decode_header(m.from)
        body == extract_email_body(m)
        sender == parse_sender(from_header.value)
        dt == msg_dt(m)
    IN IF m.fetch = "raise"
       THEN [kind |-> "raise", exc |-> Exc("IMAP4.abort", <<"socket", "error:", "EOF">>),
             rec |-> <<>>]
       ELSE IF m.fetch # "OK" THEN [kind |-> "skip", exc |-> NoExc, rec |-> <<>>]
       ELSE IF ~m.parses THEN [kind |-> "skip", exc |-> NoExc, rec |-> <<>>]
       ELSE IF subject.raised THEN [kind |-> "raise", exc |-> subject.exc, rec |-> <<>>]
       ELSE IF from_header.raised
            THEN [kind |-> "raise", exc |-> from_header.exc, rec |-> <<>>]
       ELSE [kind |-> "record", exc |-> NoExc,
             rec |-> <<[name |-> sender.name,
                        email |-> sender.addr,
                        subject |-> subject.value,
                        body |-> BodyPreview(body),
                        date |-> IF dt.none THEN start_date ELSE dt.dt]>>]

\* a loop that asks a second time for a message it got no data for
RECURSIVE FetchLoopRetrying(_, _, _, _, _)
FetchLoopRetrying(email_ids, mailbox, start_date, emails_data, fetched) ==
    IF email_ids = <<>>
    THEN [raised |-> FALSE, exc |-> NoExc, emails_data |-> emails_data,
          fetched |-> fetched]
    ELSE LET email_id == Head(email_ids)
             r == ProcessMessage(mailbox[email_id], start_date)
         IN IF r.kind = "raise"
            THEN [raised |-> TRUE, exc |-> r.exc, emails_data |-> emails_data,
                  fetched |-> Append(fetched, email_id)]
            ELSE FetchLoopRetrying(Tail(email_ids), mailbox, start_date,
                                   emails_data \o r.rec,
                                   IF r.kind = "skip"
                                   THEN fetched \o <<email_id, email_id>>
                                   ELSE Append(fetched, email_id))

RECURSIVE FetchLoop(_, _, _, _, _)
FetchLoop(email_ids, mailbox, start_date, emails_data, fetched) ==
    IF email_ids = <<>>
    THEN [raised |-> FALSE, exc |-> NoExc, emails_data |-> emails_data,
          fetched |-> fetched]
    ELSE LET email_id == Head(email_ids)
             r == ProcessMessage(mailbox[email_id], start_date)
         IN IF r.kind = "raise"
            THEN [raised |-> TRUE, exc |-> r.exc, emails_data |-> emails_data,
                  fetched |-> Append(fetched, email_id)]
            ELSE FetchLoop(Tail(email_ids), mailbox, start_date,
                           emails_data \o r.rec, Append(fetched, email_id))

\* the two except clauses of fetch_real_emails
WrapException(e) ==
    IF IsImapError(e)
    THEN Exc("Exception", <<"IMAP", "authentication/search", "error:">> \o e.text)
    ELSE Exc("Exception", <<"IMAP", "connection", "failed:">> \o e.text)

\* a cleanup that skips logout
CleanupCloseOnly(mail_exists, log) ==
    IF mail_exists THEN log \o <<"close">> ELSE log

\* the finally clause: close and logout are both attempted when mail exists
Cleanup(mail_exists, log) ==
    IF mail_exists THEN log \o <<"close", "logout">> ELSE log

\* the identifiers in the search answer, in the server's order
SearchIds(mailbox) == [i \in 1..Len(mailbox) |-> i]

\* the body of the try block; mail_exists tells the finally clause whether
\* IMAP4_SSL(...) returned
TryBlock(email_user, email_pass, server_var, start_date, end_date, srv) ==
    LET host == get_server_config(server_var).host
        before_date == AddOneDay(end_date)
        crit == [since |-> StrFTime(start_date),
                 before |-> StrFTime(before_date.value)]
        Out(exists, raised, exc, data, log, criteria, fetched) ==
            [mail_exists |-> exists, raised |-> raised, exc |-> exc, data |-> data,
             log |-> log, criteria |-> criteria, fetched |-> fetched, host |-> host]
        loop == FetchLoop(SearchIds(srv.mailbox), srv.mailbox, start_date, <<>>, <<>>)
        fetchlog == [i \in 1..Len(loop.fetched) |-> "fetch"]
    IN IF srv.connect = "oserror"
       THEN Out(FALSE, TRUE, Exc("OSError", <<"Name", "or", "service", "not", "known">>),
                <<>>, <<"connect">>, <<>>, <<>>)
       ELSE IF srv.connect = "imaperror"
       THEN Out(FALSE, TRUE, Exc("IMAP4.error", <<"unexpected", "greeting">>),
                <<>>, <<"connect">>, <<>>, <<>>)
       ELSE IF srv.login # "ok"
       THEN Out(TRUE, TRUE, Exc("IMAP4.error", LoginRejectText(srv.login)),
                <<>>, <<"connect", "login">>, <<>>, <<>>)
       ELSE IF srv.select # "OK"
       THEN Out(TRUE, TRUE, Exc("Exception", <<"Unable", "to", "select", "INBOX">>),
                <<>>, <<"connect", "login", "select_readonly">>, <<>>, <<>>)
       ELSE IF before_date.raised
       THEN Out(TRUE, TRUE, Exc("OverflowError", <<"date", "value", "out", "of", "range">>),
                <<>>, <<"connect", "login", "select_readonly">>, <<>>, <<>>)
       ELSE IF srv.search = "raise"
       THEN Out(TRUE, TRUE, Exc("IMAP4.error", <<"SEARCH", "command", "error:", "BAD">>),
                <<>>, <<"connect", "login", "select_readonly", "search">>, <<crit>>, <<>>)
       ELSE IF srv.search # "OK"
       THEN Out(TRUE, TRUE, Exc("Exception", <<"IMAP", "search", "failed">>),
                <<>>, <<"connect", "login", "select_readonly", "search">>, <<crit>>, <<>>)
       ELSE IF srv.mailbox = <<>>
       THEN Out(TRUE, FALSE, NoExc,
                <<>>, <<"connect", "login", "select_readonly", "search">>, <<crit>>, <<>>)
       ELSE IF loop.raised
       THEN Out(TRUE, TRUE, loop.exc,
                <<>>, <<"connect", "login", "select_readonly", "search">> \o fetchlog,
                <<crit>>, loop.fetched)
       ELSE Out(TRUE, FALSE, NoExc, SortByDateDesc(loop.emails_data),
                <<"connect", "login", "select_readonly", "search">> \o fetchlog,
                <<crit>>, loop.fetched)

\* a try statement that reports a retrieval without records as a failure
TryStatementEmptyFails(t) ==
    [raised |-> t.raised \/ t.data = <<>>,
     exc |-> IF t.raised THEN WrapException(t.exc)
             ELSE IF t.data = <<>>
             THEN WrapException(Exc("Exception", <<"No", "messages", "found">>))
             ELSE NoExc,
     data |-> t.data,
     log |-> Cleanup(t.mail_exists, t.log),
     criteria |-> t.criteria, fetched |-> t.fetched, host |-> t.host]

\* how the try statement ends for what its body did: the except clauses
\* wrap the exception, the finally clause cleans up
TryStatement(t) ==
    [raised |-> t.raised,
     exc |-> IF t.raised THEN WrapException(t.exc) ELSE NoExc,
     data |-> t.data,
     log |-> Cleanup(t.mail_exists, t.log),
     criteria |-> t.criteria, fetched |-> t.fetched, host |-> t.host]

fetch_real_emails(email_var, password_var, server_var, start_date, end_date, srv) ==
    IF Strip(email_var) = <<>> \/ Strip(password_var) = <<>>
    THEN [raised |-> TRUE,
          exc |-> Exc("Exception", <<"Email", "and", "password", "are", "required",
                                     "when", "demo", "mode", "is", "off.">>),
          data |-> <<>>, log |-> <<>>, criteria |-> <<>>, fetched |-> <<>>,
          host |-> ""]
    ELSE TryStatement(TryBlock(Strip(email_var), Strip(password_var), server_var,
                               start_date, end_date, srv))

(***************************************************************************)
(* Demo retrieval (demo_data.py).                                          *)
(***************************************************************************)
DtLeq(a, b) == ~DtLess(b, a)

\* a demo retrieval whose end bound is the end date as it was passed
load_demo_emails_between_end_as_passed(dataset, start_date, end_date) ==
    LET start_key == <<start_date[1], start_date[2], start_date[3], 0>>
    IN SelectSeq(dataset, LAMBDA item : DtLeq(start_key, item.date) /\ DtLeq(item.date, end_date))

\* load_demo_emails_between(start_date, end_date) over a cached dataset
load_demo_emails_between(dataset, start_date, end_date) ==
    LET start_key == <<start_date[1], start_date[2], start_date[3], 0>>
        end_key == <<end_date[1], end_date[2], end_date[3], 86399>>
    IN SelectSeq(dataset, LAMBDA item : DtLeq(start_key, item.date) /\ DtLeq(item.date, end_key))

(***************************************************************************)
(* Filter Index.                                                           *)
(***************************************************************************)
UpperLetters ==
    <<"A", "B", "C", "D", "E", "F", "G", "H", "I", "J", "K", "L", "M",
      "N", "O", "P", "Q", "R", "S", "T", "U", "V", "W", "X", "Y", "Z">>

LowerLetters ==
    <<"a", "b", "c", "d", "e", "f", "g", "h", "i", "j", "k", "l", "m",
      "n", "o", "p", "q", "r", "s", "t", "u", "v", "w", "x", "y", "z">>

LowerChar(c) ==
    IF \E i \in 1..26 : UpperLetters[i] = c
    THEN LowerLetters[CHOOSE i \in 1..26 : UpperLetters[i] = c]
    ELSE c

\* str.lower()
Lower(s) == [i \in 1..Len(s) |-> LowerChar(s[i])]

\* q in s
Contains(q, s) ==
    \E i \in 0..(Len(s) - Len(q)) : SubSeq(s, i + 1, i + Len(q)) = q

\* a blob that keeps the letter case of the fields
SearchBlobCaseKept(item) ==
    item.name \o <<"\n">> \o item.email \o <<"\n">> \o item.subject
    \o <<"\n">> \o item.body

\* f"{name}\n{email_addr}\n{subject}\n{body}".lower()
SearchBlob(item) ==
    Lower(item.name \o <<"\n">> \o item.email \o <<"\n">> \o item.subject
          \o <<"\n">> \o item.body)

\* an index that lower-cases the subject it has read
build_search_cache_subject_lowered(items) ==
    [i \in 1..Len(items) |->
        [name |-> items[i].name, email |-> items[i].email,
         subject |-> Lower(items[i].subject), body |-> items[i].body,
         date |-> items[i].date, search_blob |-> SearchBlob(items[i])]]

\* an index that gives every item the empty blob
build_search_cache_blank(items) ==
    [i \in 1..Len(items) |->
        [name |-> items[i].name, email |-> items[i].email,
         subject |-> items[i].subject, body |-> items[i].body,
         date |-> items[i].date, search_blob |-> <<>>]]

\* _build_search_cache: every item of the collection gets its '_search_blob'
build_search_cache(items) ==
    [i \in 1..Len(items) |->
        [name |-> items[i].name, email |-> items[i].email,
         subject |-> items[i].subject, body |-> items[i].body,
         date |-> items[i].date, search_blob |-> SearchBlob(items[i])]]

\* a match whose Sender scope looks at the display name alone
matches_name_only(item, q, filter_type) ==
    IF filter_type = "Sender" THEN Contains(q, Lower(item.name))
    ELSE IF filter_type = "Subject" THEN Contains(q, Lower(item.subject))
    ELSE IF filter_type = "Body" THEN Contains(q, Lower(item.body))
    ELSE Contains(q, item.search_blob)

\* matches(item) of apply_search_filter
matches(item, q, filter_type) ==
    IF filter_type = "Sender"
    THEN Contains(q, Lower(item.name)) \/ Contains(q, Lower(item.email))
    ELSE IF filter_type = "Subject" THEN Contains(q, Lower(item.subject))
    ELSE IF filter_type = "Body" THEN Contains(q, Lower(item.body))
    ELSE Contains(q, item.search_blob)

(***************************************************************************)
(* Inputs: messages, mailboxes, server scripts, date texts, credentials.   *)
(***************************************************************************)
Hdr(text) == [present |-> TRUE, parts |-> <<[bytes |-> FALSE, encoding |-> "", text |-> text]>>]

HdrEncoded(text, encoding) ==
    [present |-> TRUE, parts |-> <<[bytes |-> TRUE, encoding |-> encoding, text |-> text]>>]

NoHdr == [present |-> FALSE, parts |-> <<>>]

\* a Date header without zone (or with -0000): parsed to a naive datetime
DateOk(dt) == [kind |-> "ok", dt |-> dt, aware |-> FALSE, offset |-> 0]

\* a Date header with a zone: parsed to an aware datetime
DateZoned(dt, offset) == [kind |-> "ok", dt |-> dt, aware |-> TRUE, offset |-> offset]

DateAbsent == [kind |-> "absent", dt |-> <<0, 0, 0, 0>>, aware |-> FALSE, offset |-> 0]

DateBad == [kind |-> "bad", dt |-> <<0, 0, 0, 0>>, aware |-> FALSE, offset |-> 0]

PlainPart(payload) == [ctype |-> "text/plain", payload |-> payload, raises |-> FALSE]

Message(fetch, parses, date, subject, from, multipart, parts) ==
    [fetch |-> fetch, parses |-> parses, date |-> date, subject |-> subject,
     from |-> from, multipart |-> multipart, parts |-> parts]

\* 2024-02-29 00:00:00 and 2024-03-01 00:01:40
D1 == <<2024, 2, 29, 0>>

D2 == <<2024, 3, 1, 100>>

FromAl == Hdr(<<"A", "l", " ", "<", "a", "@", "x", ">">>)

FromBare == Hdr(<<"b", "@", "x">>)

GoodA == Message("OK", TRUE, DateOk(D1), Hdr(<<"H", "i">>), FromAl, FALSE,
                 <<PlainPart(<<"o", "k">>)>>)

\* same timestamp as GoodA
GoodB == Message("OK", TRUE, DateOk(D1), Hdr(<<"y", "o">>), FromBare, FALSE,
                 <<PlainPart(<<"h", "i">>)>>)

GoodC == Message("OK", TRUE, DateOk(D2), HdrEncoded(<<"R", "e">>, "utf-8"), FromAl, TRUE,
                 <<[ctype |-> "text/html", payload |-> <<"<", "p", ">">>, raises |-> FALSE],
                   PlainPart(<<"a">>), PlainPart(<<"b">>)>>)

NoDateMsg == Message("OK", TRUE, DateAbsent, Hdr(<<"n", "d">>), FromAl, FALSE,
                     <<PlainPart(<<"x">>)>>)

BadDateMsg == Message("OK", TRUE, DateBad, NoHdr, NoHdr, FALSE, <<PlainPart(<<"y">>)>>)

BodyFailMsg == Message("OK", TRUE, DateOk(D2), Hdr(<<"b", "f">>), FromBare, FALSE,
                       <<[ctype |-> "text/plain", payload |-> <<"z">>, raises |-> TRUE]>>)

FetchNoMsg == Message("NO", TRUE, DateOk(D1), Hdr(<<"f", "n">>), FromAl, FALSE, <<>>)

FetchEmptyMsg == Message("EMPTY", TRUE, DateOk(D1), Hdr(<<"f", "e">>), FromAl, FALSE, <<>>)

FetchRaiseMsg == Message("raise", TRUE, DateOk(D1), Hdr(<<"f", "r">>), FromAl, FALSE, <<>>)

ParseFailMsg == Message("OK", FALSE, DateOk(D1), Hdr(<<"p", "f">>), FromAl, FALSE, <<>>)

SubjectRaiseMsg == Message("OK", TRUE, DateOk(D1), HdrEncoded(<<"s", "r">>, "x-unknown"),
                           FromAl, FALSE, <<PlainPart(<<"o", "k">>)>>)

FromRaiseMsg == Message("OK", TRUE, DateOk(D2), Hdr(<<"f", "x">>),
                        HdrEncoded(<<"c", "@", "x">>, "x-unknown"), FALSE,
                        <<PlainPart(<<"o", "k">>)>>)

\* Thu, 29 Feb 2024 23:30:00 -0500
ZonedMsg == Message("OK", TRUE, DateZoned(<<2024, 2, 29, 84600>>, -18000),
                    Hdr(<<"t", "z">>), FromBare, FALSE, <<PlainPart(<<"o", "k">>)>>)

\* Fri, 31 Dec 9999 23:30:00 -0500: astimezone raises OverflowError
EdgeDateMsg == Message("OK", TRUE, DateZoned(<<9999, 12, 31, 84600>>, -18000),
                       Hdr(<<"e", "d">>), FromBare, FALSE, <<PlainPart(<<"o", "k">>)>>)

MsgPool == {GoodA, GoodB, GoodC, NoDateMsg, BadDateMsg, BodyFailMsg, FetchNoMsg,
            FetchEmptyMsg, FetchRaiseMsg, ParseFailMsg, SubjectRaiseMsg, FromRaiseMsg,
            ZonedMsg, EdgeDateMsg}

SeqsUpTo(S, n) == UNION {[1..k -> S] : k \in 0..n}

Server(connect, login, select, search, mailbox) ==
    [connect |-> connect, login |-> login, select |-> select, search |-> search,
     mailbox |-> mailbox]

\* servers that fail before any message is fetched
FailingServers ==
    {Server("oserror", "ok", "OK", "OK", <<>>),
     Server("imaperror", "ok", "OK", "OK", <<>>),
     Server("ok", "reject_tagged", "OK", "OK", <<>>),
     Server("ok", "reject_plain", "OK", "OK", <<>>),
     Server("ok", "ok", "NO", "OK", <<>>),
     Server("ok", "ok", "OK", "NO", <<>>),
     Server("ok", "ok", "OK", "raise", <<>>)}

ServingServers(n) == {Server("ok", "ok", "OK", "OK", mb) : mb \in SeqsUpTo(MsgPool, n)}

\* the text of a date field, split at '-': empty, not a calendar date, or a date
DateTexts ==
    {<<>>, <<2024, 2, 30>>, <<2023, 2, 28>>, <<2023, 12, 31>>, <<2024, 2, 28>>,
     <<2024, 2, 29>>, <<2024, 3, 1>>, <<9999, 12, 31>>}

CredTexts == {<<>>, <<" ">>, <<" ", "u", " ">>}

ServerNames == {"Gmail", "Outlook", "Custom", "Yahoo"}

\* the ranges fetch_emails lets through: both texts parse and start <= end
ValidRanges ==
    {r \in DateTexts \X DateTexts :
        /\ ~StrPTime(r[1]).raised
        /\ ~StrPTime(r[2]).raised
        /\ ~DtLess(StrPTime(r[2]).value, StrPTime(r[1]).value)}

Call(email, password, server, range, srv) ==
    [email_var |-> email, password_var |-> password, server_var |-> server,
     start_date |-> StrPTime(range[1]).value, end_date |-> StrPTime(range[2]).value,
     srv |-> srv]

\* every credential, profile and range against the failing servers and the
\* mailboxes of at most one message; three ranges around the message dates
\* against every mailbox
SessionCalls ==
    {Call(e, pw, sv, r, srv) :
        e \in CredTexts, pw \in CredTexts, sv \in ServerNames, r \in ValidRanges,
        srv \in FailingServers \cup ServingServers(1)}
    \cup
    {Call(<<"u">>, <<"p">>, "Gmail", r, srv) :
        r \in {<<<<2024, 2, 28>>, <<2024, 3, 1>>>>, <<<<2024, 2, 29>>, <<2024, 2, 29>>>>,
               <<<<2024, 3, 1>>, <<2024, 3, 1>>>>},
        srv \in ServingServers(MaxMsgs)}

NoResult ==
    [raised |-> FALSE, exc |-> NoExc, data |-> <<>>, log |-> <<>>, criteria |-> <<>>,
     fetched |-> <<>>, host |-> ""]

(***************************************************************************)
(* State.                                                                  *)
(***************************************************************************)
VARIABLES
    \* the form (Tk variables of create_email_filter_screen); the two date
    \* entries are read by fetch_emails alone, which takes their text as input
    email_var, password_var, demo_mode_var, server_var,
    \* widgets: status label, progress bar shown, fetch button disabled, and
    \* the modal messagebox on screen ("none" when there is none)
    status_label, loading, fetch_button_disabled, dialog,
    \* collection and filter state
    emails_data, filtered_emails, last_filter,
    \* dashboard window
    dashboard_open, search_var, filter_type_var, search_after,
    \* the rows of the dashboard table
    tree,
    \* the worker threads started by fetch_emails so far, and the callbacks
    \* handed to root.after(0, ...), in the order they were scheduled
    workers, after_queue,
    \* one call of fetch_real_emails (SessionSpec)
    s_pc, s_in, s_out

FormVars == <<email_var, password_var, demo_mode_var, server_var>>

WidgetVars == <<status_label, loading, fetch_button_disabled, dialog>>

DataVars == <<emails_data, filtered_emails, last_filter>>

DashVars == <<dashboard_open, search_var, filter_type_var, search_after, tree>>

ThreadVars == <<workers, after_queue>>

SessionVars == <<s_pc, s_in, s_out>>

AppVars == <<FormVars, WidgetVars, DataVars, DashVars, ThreadVars>>

vars == <<AppVars, SessionVars>>

Status(text, n) == [text |-> text, n |-> n]

NoFilter == [set |-> FALSE, q |-> <<>>, filter_type |-> ""]

\* _search_after_id and the callbacks root.after holds for the search: the
\* callback the id names (pending, with its kind and captured query) and, in
\* unreferenced, the callbacks still to fire whose id is no longer held
NoTimer == [pending |-> FALSE, kind |-> "", query |-> <<>>, unreferenced |-> {}]

\* after_cancel(self._search_after_id); self._search_after_id = after(...)
Rescheduled(timer, kind, query) ==
    [pending |-> TRUE, kind |-> kind, query |-> query,
     unreferenced |-> timer.unreferenced]

\* the callback the id names has run
Fired(timer) ==
    [pending |-> FALSE, kind |-> "", query |-> <<>>,
     unreferenced |-> timer.unreferenced]

\* self._search_after_id = None, the callback it named left to fire
Dropped(timer) ==
    [pending |-> FALSE, kind |-> "", query |-> <<>>,
     unreferenced |-> timer.unreferenced \cup
         (IF timer.pending THEN {[kind |-> timer.kind, query |-> timer.query]}
          ELSE {})]

NoDate == <<0, 0, 0, 0>>

\* EmailFilterApp.__init__
AppInit ==
    /\ email_var = <<>>
    /\ password_var = <<>>
    /\ demo_mode_var = FALSE
    /\ server_var = "Gmail"
    /\ status_label = Status("Ready to fetch emails", 0)
    /\ loading = FALSE
    /\ fetch_button_disabled = FALSE
    /\ dialog = "none"
    /\ emails_data = <<>>
    /\ filtered_emails = <<>>
    /\ last_filter = NoFilter
    /\ dashboard_open = FALSE
    /\ search_var = <<>>
    /\ filter_type_var = "All"
    /\ search_after = NoTimer
    /\ tree = <<>>
    /\ workers = <<>>
    /\ after_queue = <<>>

(***************************************************************************)
(* SessionSpec: fetch_real_emails applied to every call in SessionCalls.   *)
(***************************************************************************)
SessionInit ==
    /\ AppInit
    /\ s_pc = "call"
    /\ s_in \in SessionCalls
    /\ s_out = NoResult

SessionRetrieve ==
    /\ s_pc = "call"
    /\ s_pc' = "returned"
    /\ s_out' = fetch_real_emails(s_in.email_var, s_in.password_var, s_in.server_var,
                                  s_in.start_date, s_in.end_date, s_in.srv)
    /\ UNCHANGED <<s_in, AppVars>>

SessionNext == SessionRetrieve

SessionSpec == SessionInit /\ [][SessionNext]_vars

(***************************************************************************)
(* Spec: the application.                                                  *)
(***************************************************************************)
\* what the user can put into the two date entries: nothing, a text that is
\* no date, or a date
StartDateTexts == {<<>>, <<2024, 2, 30>>, <<2024, 3, 1>>}

EndDateTexts == {<<>>, <<2024, 13, 1>>, <<2024, 2, 29>>, <<2024, 3, 1>>}

EmailTexts == {<<>>, <<" ">>, <<" ", "u", " ">>}

PasswordTexts == {<<>>, <<"p">>}

\* what the user can type into the search box
SearchTexts == {<<>>, <<" ", "H", "i">>}

FilterTypes == {"All", "Subject"}

\* the servers a worker of Spec can meet
CoordServers ==
    {Server("oserror", "ok", "OK", "OK", <<>>),
     Server("ok", "reject_tagged", "OK", "OK", <<>>),
     Server("ok", "ok", "OK", "NO", <<>>),
     Server("ok", "ok", "OK", "OK", <<>>),
     Server("ok", "ok", "OK", "OK", <<GoodA, GoodC>>)}

\* the cached demo dataset, newest first
DemoDataset ==
    <<[name |-> <<"L", "u">>, email |-> <<"l", "@", "h">>,
       subject |-> <<"F", "w">>, body |-> <<"H", "I">>, date |-> <<2024, 3, 2, 600>>],
      [name |-> <<"N", "o", "r", "a">>, email |-> <<"n", "@", "r">>,
       subject |-> <<"H", "i">>, body |-> <<"o", "k">>, date |-> <<2024, 3, 1, 32400>>],
      [name |-> <<"L", "u">>, email |-> <<"l", "@", "h">>,
       subject |-> <<"B", "y", "e">>, body |-> <<"h", "i">>, date |-> <<2024, 3, 1, 0>>],
      [name |-> <<"N", "o", "r", "a">>, email |-> <<"n", "@", "r">>,
       subject |-> <<"R", "e">>, body |-> <<"n", "o">>, date |-> <<2024, 2, 29, 86399>>]>>

Init ==
    /\ AppInit
    /\ s_pc = "idle"
    /\ s_in = Call(<<>>, <<>>, "Gmail", <<<<2024, 2, 29>>, <<2024, 2, 29>>>>,
                   Server("ok", "ok", "OK", "OK", <<>>))
    /\ s_out = NoResult

\* ---- the user edits the form -------------------------------------------
SetEmail(text) ==
    /\ dialog = "none"
    /\ email_var' = text
    /\ UNCHANGED <<password_var, demo_mode_var, server_var,
                   WidgetVars, DataVars, DashVars, ThreadVars, SessionVars>>

SetPassword(text) ==
    /\ dialog = "none"
    /\ password_var' = text
    /\ UNCHANGED <<email_var, demo_mode_var, server_var,
                   WidgetVars, DataVars, DashVars, ThreadVars, SessionVars>>

ToggleDemoMode ==
    /\ dialog = "none"
    /\ demo_mode_var' = ~demo_mode_var
    /\ UNCHANGED <<email_var, password_var, server_var,
                   WidgetVars, DataVars, DashVars, ThreadVars, SessionVars>>

\* the user closes the messagebox on screen
DismissDialog ==
    /\ dialog # "none"
    /\ dialog' = "none"
    /\ UNCHANGED <<FormVars, status_label, loading, fetch_button_disabled,
                   DataVars, DashVars, ThreadVars, SessionVars>>

\* ---- fetch_emails --------------------------------------------------------
NewWorker(use_demo, start_date, end_date) ==
    [pc |-> "running", use_demo |-> use_demo, start_date |-> start_date,
     end_date |-> end_date, raised |-> FALSE, data |-> <<>>, exc |-> NoExc,
     status |-> Status("", 0), log |-> <<>>, host |-> "", cb |-> "none"]

\* a validation that lets start > end through
DateErrorNoOrderCheck(start_text, end_text) ==
    IF start_text = <<>> \/ end_text = <<>>
    THEN "Error: Please select both start and end dates."
    ELSE IF StrPTime(start_text).raised \/ StrPTime(end_text).raised
    THEN "Error: Invalid date format. Use YYYY-MM-DD."
    ELSE "none"

\* the checks fetch_emails makes before it starts anything: the messagebox it
\* shows, or "none" when the dates pass
DateError(start_text, end_text) ==
    IF start_text = <<>> \/ end_text = <<>>
    THEN "Error: Please select both start and end dates."
    ELSE IF StrPTime(start_text).raised \/ StrPTime(end_text).raised
    THEN "Error: Invalid date format. Use YYYY-MM-DD."
    ELSE IF DtLess(StrPTime(end_text).value, StrPTime(start_text).value)
    THEN "Error: Start date cannot be after end date."
    ELSE "none"

\* via: the Fetch button (a disabled ttk button does not run its command),
\* or one of the key bindings, which call fetch_emails whatever the button's
\* state is; start_text and end_text: what the date entries hold
fetch_emails(via, start_text, end_text) ==
    /\ dialog = "none"
    /\ via = "button" => ~fetch_button_disabled
    /\ LET error == DateError(start_text, end_text)
       IN IF error # "none"
          THEN /\ dialog' = error
               /\ UNCHANGED <<status_label, loading, fetch_button_disabled, workers>>
          ELSE /\ Len(workers) < MaxFetches
               /\ status_label' = Status("Fetching emails...", 0)
               /\ loading' = TRUE
               /\ fetch_button_disabled' = TRUE
               /\ workers' = Append(workers,
                                    NewWorker(demo_mode_var, StrPTime(start_text).value,
                                              StrPTime(end_text).value))
               /\ UNCHANGED dialog
    /\ UNCHANGED <<FormVars, DataVars, DashVars, after_queue, SessionVars>>

\* ---- the worker thread ---------------------------------------------------
\* the try block of worker(): the retrieval, then root.after(0, ...).  A
\* live retrieval reads the credential and server variables when it runs.
DemoResult(data) ==
    [raised |-> FALSE, exc |-> NoExc, data |-> data,
     status |-> Status("Demo: Found emails", Len(data)), log |-> <<>>, host |-> ""]

LiveResult(r) ==
    [raised |-> r.raised, exc |-> r.exc, data |-> r.data,
     status |-> IF r.raised THEN Status("Error occurred", 0)
                ELSE Status("Found emails", Len(r.data)),
     log |-> r.log, host |-> r.host]

WorkerResult(w, srv) ==
    IF w.use_demo
    THEN DemoResult(load_demo_emails_between(DemoDataset, w.start_date, w.end_date))
    ELSE LiveResult(fetch_real_emails(email_var, password_var, server_var,
                                      w.start_date, w.end_date, srv))

\* On success the thread ends with the callback scheduled; on an exception
\* the callback is scheduled inside the except block, whose variable exc is
\* still bound.
Scheduled(w, r) ==
    [pc |-> IF r.raised THEN "in_handler" ELSE "done",
     use_demo |-> w.use_demo, start_date |-> NoDate,
     end_date |-> NoDate, raised |-> r.raised, data |-> r.data,
     exc |-> r.exc, status |-> r.status, log |-> r.log,
     host |-> r.host, cb |-> "queued"]

WorkerRun(i) ==
    /\ i \in 1..Len(workers)
    /\ workers[i].pc = "running"
    /\ \E srv \in CoordServers :
          workers' = [workers EXCEPT ![i] = Scheduled(@, WorkerResult(@, srv))]
    /\ after_queue' = Append(after_queue, i)
    /\ UNCHANGED <<FormVars, WidgetVars, DataVars, DashVars, SessionVars>>

\* the worker leaves "except Exception as exc": Python unbinds exc, the cell
\* the scheduled lambda closes over
WorkerLeaveHandler(i) ==
    /\ i \in 1..Len(workers)
    /\ workers[i].pc = "in_handler"
    /\ workers' = [workers EXCEPT ![i].pc = "done"]
    /\ UNCHANGED <<FormVars, WidgetVars, DataVars, DashVars, after_queue, SessionVars>>

\* ---- the event loop runs a scheduled callback ----------------------------
\* 'AUTHENTICATIONFAILED' in err.upper(), on the words of the message
MentionsAuthFailed(text) == \E k \in 1..Len(text) : text[k] = "[AUTHENTICATIONFAILED]"

ErrorDialog(exc) ==
    IF MentionsAuthFailed(exc.text) THEN "Authentication Failed"
    ELSE "Error: Failed to fetch emails"

\* the worker's record once the event loop has run its callback: the closure
\* and what it held are gone; cb tells how the callback ended
Consumed(w, cb) ==
    [pc |-> w.pc, use_demo |-> w.use_demo, start_date |-> NoDate,
     end_date |-> NoDate, raised |-> w.raised, data |-> <<>>, exc |-> NoExc,
     status |-> Status("", 0), log |-> <<>>, host |-> "", cb |-> cb]

\* a completion that copies the view before it assigns the collection
on_fetch_done_view_copied_first(data, error, status_text) ==
    /\ loading' = FALSE
    /\ fetch_button_disabled' = FALSE
    /\ IF error # NoExc
       THEN /\ dialog' = ErrorDialog(error)
            /\ status_label' = Status("Error occurred", 0)
            /\ UNCHANGED DataVars
       ELSE /\ emails_data' = build_search_cache(data)
            /\ filtered_emails' = emails_data
            /\ status_label' = status_text
            /\ dialog' = IF data = <<>> THEN "No Emails" ELSE "Success"
            /\ UNCHANGED last_filter

\* a completion that installs the collection and keeps the filtered view
on_fetch_done_view_kept(data, error, status_text) ==
    /\ loading' = FALSE
    /\ fetch_button_disabled' = FALSE
    /\ IF error # NoExc
       THEN /\ dialog' = ErrorDialog(error)
            /\ status_label' = Status("Error occurred", 0)
            /\ UNCHANGED DataVars
       ELSE /\ emails_data' = build_search_cache(data)
            /\ status_label' = status_text
            /\ dialog' = IF data = <<>> THEN "No Emails" ELSE "Success"
            /\ UNCHANGED <<filtered_emails, last_filter>>

\* a completion that clears the collection when the retrieval failed
on_fetch_done_clearing(data, error, status_text) ==
    /\ loading' = FALSE
    /\ fetch_button_disabled' = FALSE
    /\ emails_data' = build_search_cache(data)
    /\ filtered_emails' = build_search_cache(data)
    /\ status_label' = IF error # NoExc THEN Status("Error occurred", 0) ELSE status_text
    /\ dialog' = IF error # NoExc THEN ErrorDialog(error)
                 ELSE IF data = <<>> THEN "No Emails" ELSE "Success"
    /\ UNCHANGED last_filter

\* _on_fetch_done(data, error, status_text)
on_fetch_done(data, error, status_text) ==
    /\ loading' = FALSE
    /\ fetch_button_disabled' = FALSE
    /\ IF error # NoExc
       THEN /\ dialog' = ErrorDialog(error)
            /\ status_label' = Status("Error occurred", 0)
            /\ UNCHANGED DataVars
       ELSE /\ emails_data' = build_search_cache(data)
            /\ filtered_emails' = build_search_cache(data)
            /\ status_label' = status_text
            /\ dialog' = IF data = <<>> THEN "No Emails" ELSE "Success"
            /\ UNCHANGED last_filter

\* The lambda scheduled from the except block reads exc when it runs: once
\* the worker has left the block the name is unbound, the lambda raises
\* NameError and _on_fetch_done is never called.
RunCallback ==
    /\ after_queue # <<>>
    /\ LET i == Head(after_queue)
           w == workers[i]
       IN IF w.raised /\ w.pc = "done"
          THEN /\ workers' = [workers EXCEPT ![i] = Consumed(w, "NameError")]
               /\ UNCHANGED <<WidgetVars, DataVars>>
          ELSE /\ workers' = [workers EXCEPT ![i] = Consumed(w, "delivered")]
               /\ on_fetch_done(w.data, w.exc, w.status)
    /\ after_queue' = Tail(after_queue)
    /\ UNCHANGED <<FormVars, DashVars, SessionVars>>

\* ---- the dashboard -------------------------------------------------------
\* apply_search_filter(query), with the filter type it reads
\* the key apply_search_filter remembers a query by
CurrentFilter(query, filter_type) ==
    [set |-> TRUE, q |-> Lower(Strip(query)), filter_type |-> filter_type]

\* the records apply_search_filter selects from items
\* a result built back to front
FilterResultReversed(items, query, filter_type) ==
    IF Lower(Strip(query)) = <<>> THEN items
    ELSE LET found == SelectSeq(items, LAMBDA it : matches(it, Lower(Strip(query)), filter_type))
         IN  [k \in 1..Len(found) |-> found[Len(found) + 1 - k]]

FilterResult(items, query, filter_type) ==
    IF Lower(Strip(query)) = <<>> THEN items
    ELSE SelectSeq(items, LAMBDA it : matches(it, Lower(Strip(query)), filter_type))

\* the row populate_table shows for a record
Row(item) ==
    [name |-> item.name, email |-> item.email, subject |-> item.subject,
     body |-> IF Len(item.body) > 100 THEN Take(item.body, 100) \o <<".", ".", ".">>
              ELSE item.body]

\* the rows of sorted(active_list, key=date, reverse=True)
Rows(sorted) == [k \in 1..Len(sorted) |-> Row(sorted[k])]

\* populate_table: the table is rebuilt from filtered_emails, newest first
\* (on a destroyed table the call raises before it changes anything)
populate_table(active_list) ==
    tree' = IF dashboard_open THEN Rows(SortByDateDesc(active_list)) ELSE tree

\* a filter that evaluates every query, the repeated one too
apply_search_filter_always(query, filter_type) ==
    /\ last_filter' = CurrentFilter(query, filter_type)
    /\ filtered_emails' = FilterResult(emails_data, query, filter_type)
    /\ populate_table(FilterResult(emails_data, query, filter_type))

\* apply_search_filter: nothing is done when the stripped, lower-cased query
\* and the filter type are those of the last evaluation
apply_search_filter(query, filter_type) ==
    IF last_filter = CurrentFilter(query, filter_type)
    THEN UNCHANGED <<last_filter, filtered_emails, tree>>
    ELSE /\ last_filter' = CurrentFilter(query, filter_type)
         /\ filtered_emails' = FilterResult(emails_data, query, filter_type)
         /\ populate_table(FilterResult(emails_data, query, filter_type))

\* open_dashboard / create_dashboard_screen
open_dashboard ==
    /\ dialog = "none"
    /\ IF emails_data = <<>>
       THEN /\ dialog' = "No Data"
            /\ UNCHANGED <<filtered_emails, DashVars>>
       ELSE IF dashboard_open
       THEN UNCHANGED <<dialog, filtered_emails, DashVars>>
       ELSE /\ dashboard_open' = TRUE
            /\ filter_type_var' = "All"
            /\ search_var' = <<>>
            /\ search_after' = Dropped(search_after)
            /\ filtered_emails' = emails_data
            /\ tree' = Rows(SortByDateDesc(emails_data))
            /\ UNCHANGED dialog
    /\ UNCHANGED <<FormVars, status_label, loading, fetch_button_disabled, emails_data,
                   last_filter, ThreadVars, SessionVars>>

\* the window manager destroys the dashboard window
CloseDashboard ==
    /\ dialog = "none"
    /\ dashboard_open
    /\ dashboard_open' = FALSE
    /\ tree' = <<>>
    /\ UNCHANGED <<FormVars, WidgetVars, DataVars, search_var, filter_type_var,
                   search_after, ThreadVars, SessionVars>>

\* a key released in the search entry: on_search_key
on_search_key(text) ==
    /\ dialog = "none"
    /\ dashboard_open
    /\ search_var' = text
    /\ search_after' = Rescheduled(search_after, "do_filter", <<>>)
    /\ UNCHANGED <<FormVars, WidgetVars, DataVars, dashboard_open, filter_type_var,
                   tree, ThreadVars, SessionVars>>

\* the clear button of the dashboard: set_search_query("")
set_search_query(query) ==
    /\ dialog = "none"
    /\ dashboard_open
    /\ search_var' = query
    /\ search_after' = Rescheduled(search_after, "set_query", query)
    /\ UNCHANGED <<FormVars, WidgetVars, DataVars, dashboard_open, filter_type_var,
                   tree, ThreadVars, SessionVars>>

\* <Return> in the search entry
SearchReturn ==
    /\ dialog = "none"
    /\ dashboard_open
    /\ apply_search_filter(search_var, filter_type_var)
    /\ UNCHANGED <<FormVars, WidgetVars, emails_data, dashboard_open, search_var,
                   filter_type_var, search_after, ThreadVars, SessionVars>>

\* refresh_dashboard (F5, the refresh button)
refresh_dashboard ==
    /\ dialog = "none"
    /\ dashboard_open
    /\ apply_search_filter(search_var, filter_type_var)
    /\ dialog' = "Refresh"
    /\ UNCHANGED <<FormVars, status_label, loading, fetch_button_disabled, emails_data,
                   dashboard_open, search_var, filter_type_var, search_after,
                   ThreadVars, SessionVars>>

\* the debounce timer fires: do_filter, or the lambda of set_search_query
SearchTimerFires ==
    /\ search_after.pending
    /\ search_after' = Fired(search_after)
    /\ apply_search_filter(IF search_after.kind = "do_filter" THEN search_var
                           ELSE search_after.query, filter_type_var)
    /\ UNCHANGED <<FormVars, WidgetVars, emails_data, dashboard_open, search_var,
                   filter_type_var, ThreadVars, SessionVars>>

\* a callback of root.after whose id create_dashboard_screen has dropped fires
UnreferencedTimerFires ==
    \E timer \in search_after.unreferenced :
        /\ search_after' = [search_after EXCEPT !.unreferenced = @ \ {timer}]
        /\ apply_search_filter(IF timer.kind = "do_filter" THEN search_var
                               ELSE timer.query, filter_type_var)
        /\ UNCHANGED <<FormVars, WidgetVars, emails_data, dashboard_open, search_var,
                       filter_type_var, ThreadVars, SessionVars>>

\* <<ComboboxSelected>> on the filter type
SelectFilterType(filter_type) ==
    /\ dialog = "none"
    /\ dashboard_open
    /\ filter_type_var' = filter_type
    /\ apply_search_filter(search_var, filter_type)
    /\ UNCHANGED <<FormVars, WidgetVars, emails_data, dashboard_open, search_var,
                   search_after, ThreadVars, SessionVars>>

\* ---- Spec: the form, fetch_emails, the workers and their callbacks ------
Next ==
    \/ \E text \in EmailTexts : SetEmail(text)
    \/ \E text \in PasswordTexts : SetPassword(text)
    \/ ToggleDemoMode
    \/ DismissDialog
    \/ \E via \in {"button", "Return", "Control-r"},
          start_text \in StartDateTexts, end_text \in EndDateTexts :
          fetch_emails(via, start_text, end_text)
    \/ \E i \in 1..MaxFetches : WorkerRun(i)
    \/ \E i \in 1..MaxFetches : WorkerLeaveHandler(i)
    \/ RunCallback

Spec == Init /\ [][Next]_vars

\* ---- DashSpec: retrievals with the credential fields left as they start ---
\* ---- (demo retrievals over two ranges succeed, live ones fail), started ----
\* ---- by a user who waits for the progress bar to go before fetching -------
\* ---- again, and the dashboard ---------------------------------------------
DashStartDateTexts == {<<2024, 3, 1>>}

DashEndDateTexts == {<<>>, <<2024, 3, 1>>, <<2024, 3, 2>>}

DashNext ==
    \/ ToggleDemoMode
    \/ DismissDialog
    \/ \E via \in {"button", "Return", "Control-r"},
          start_text \in DashStartDateTexts, end_text \in DashEndDateTexts :
          ~loading /\ fetch_emails(via, start_text, end_text)
    \/ \E i \in 1..MaxFetches : WorkerRun(i)
    \/ \E i \in 1..MaxFetches : WorkerLeaveHandler(i)
    \/ RunCallback
    \/ open_dashboard
    \/ CloseDashboard
    \/ \E text \in SearchTexts : on_search_key(text)
    \/ set_search_query(<<>>)
    \/ SearchTimerFires
    \/ UnreferencedTimerFires
    \/ SearchReturn
    \/ refresh_dashboard
    \/ \E filter_type \in FilterTypes : SelectFilterType(filter_type)

DashSpec == Init /\ [][DashNext]_vars

\* ---- NormalizeSpec: the per-message body of the fetch loop applied to ------
\* ---- messages whose text/plain parts have every length around the two -----
\* ---- limits ---------------------------------------------------------------
\* a text of n characters, the digits in turn from the one after offset
Digits == <<"0", "1", "2", "3", "4", "5", "6", "7", "8", "9">>

TextOf(n, offset) == [i \in 1..n |-> Digits[((i + offset) % 10) + 1]]

\* lengths of a text/plain payload: none, short, and around 200 and MAX_LEN
PayloadLengths == {0, 1, 199, 200, 201, 1799, 1800, 1999, 2000, 2001}

\* a message of one part, and a multipart message of an HTML part and two
\* text/plain parts
BodyMessages ==
    {Message("OK", TRUE, DateOk(D1), Hdr(<<"H", "i">>), FromAl, FALSE,
             <<PlainPart(TextOf(n, 0))>>) : n \in PayloadLengths}
    \cup
    {Message("OK", TRUE, DateOk(D1), Hdr(<<"H", "i">>), FromAl, TRUE,
             <<[ctype |-> "text/html", payload |-> <<"<", "p", ">">>, raises |-> FALSE],
               PlainPart(TextOf(n[1], 0)), PlainPart(TextOf(n[2], 5))>>) :
        n \in PayloadLengths \X PayloadLengths}

NormalizeInit ==
    /\ AppInit
    /\ s_pc = "call"
    /\ s_in \in [m : BodyMessages, start_date : {D1}]
    /\ s_out = NoResult

Normalize ==
    /\ s_pc = "call"
    /\ s_pc' = "returned"
    /\ s_out' = ProcessMessage(s_in.m, s_in.start_date)
    /\ UNCHANGED <<s_in, AppVars>>

NormalizeNext == Normalize

NormalizeSpec == NormalizeInit /\ [][NormalizeNext]_vars

\* ---- DemoSpec: load_demo_emails_between applied to every cached dataset ----
\* ---- and range of its inputs ----------------------------------------------
\* cached datasets: what _generate_large_dataset leaves, newest first
DemoDatasets ==
    {SelectSeq(DemoDataset, LAMBDA item : item \in kept) :
        kept \in SUBSET {DemoDataset[k] : k \in 1..Len(DemoDataset)}}

\* the datetimes a range is made of: days around those of the dataset, at
\* midnight (what fetch_emails passes) and at noon
DemoBounds ==
    {<<2024, 2, 28, 0>>, <<2024, 2, 29, 0>>, <<2024, 2, 29, 43200>>,
     <<2024, 3, 1, 0>>, <<2024, 3, 1, 43200>>, <<2024, 3, 2, 0>>}

DemoCalls ==
    [dataset : DemoDatasets, start_date : DemoBounds, end_date : DemoBounds]

DemoInit ==
    /\ AppInit
    /\ s_pc = "call"
    /\ s_in \in DemoCalls
    /\ s_out = NoResult

DemoRetrieve ==
    /\ s_pc = "call"
    /\ s_pc' = "returned"
    /\ s_out' = DemoResult(load_demo_emails_between(s_in.dataset, s_in.start_date,
                                                    s_in.end_date))
    /\ UNCHANGED <<s_in, AppVars>>

DemoNext == DemoRetrieve

DemoSpec == DemoInit /\ [][DemoNext]_vars

\* ---- QuerySpec: one evaluation of a query on an installed collection -----
\* the values of the filter-type combobox
ScopeValues == {"All", "Sender", "Subject", "Body"}

\* the texts of the search entry a query is evaluated with
QueryTexts ==
    {<<>>, <<" ">>, <<"h", "i">>, <<" ", "H", "i">>, <<"H", "I", " ">>,
     <<"@", "h">>, <<"L", "U">>}

\* the records a collection is made of: those of the demo dataset and one
\* more that has the timestamp of the second
QueryRecords ==
    {DemoDataset[k] : k \in 1..Len(DemoDataset)}
    \cup {[name |-> <<"A", "l">>, email |-> <<"a", "@", "h">>,
           subject |-> <<"H", "i", "!">>, body |-> <<"y", "o">>,
           date |-> <<2024, 3, 1, 32400>>]}

\* installed collections: what a retrieval returns (newest first, records of
\* one timestamp in the order they were fetched), indexed
QueryCollections ==
    {build_search_cache(SortByDateDesc(c)) : c \in SeqsUpTo(QueryRecords, MaxRecords)}

\* the dashboard as create_dashboard_screen leaves it over an installed
\* collection, with a text in the search entry and a scope selected
QueryInit ==
    /\ email_var = <<>>
    /\ password_var = <<>>
    /\ demo_mode_var = TRUE
    /\ server_var = "Gmail"
    /\ status_label = Status("Ready to fetch emails", 0)
    /\ loading = FALSE
    /\ fetch_button_disabled = FALSE
    /\ dialog = "none"
    /\ emails_data \in QueryCollections
    /\ filtered_emails = emails_data
    /\ last_filter = NoFilter
    /\ dashboard_open = TRUE
    /\ search_var \in QueryTexts
    /\ filter_type_var \in ScopeValues
    /\ search_after = NoTimer
    /\ tree = Rows(SortByDateDesc(emails_data))
    /\ workers = <<>>
    /\ after_queue = <<>>
    /\ s_pc = "idle"
    /\ s_in = Call(<<>>, <<>>, "Gmail", <<<<2024, 2, 29>>, <<2024, 2, 29>>>>,
                   Server("ok", "ok", "OK", "OK", <<>>))
    /\ s_out = NoResult

QueryNext == SearchReturn

QuerySpec == QueryInit /\ [][QueryNext]_vars

(***************************************************************************)
(* Properties of one live retrieval (SessionSpec).                         *)
(***************************************************************************)
Returned == s_pc = "returned"

\* the call got past the credential check
HasCredentials == Strip(s_in.email_var) # <<>> /\ Strip(s_in.password_var) # <<>>

\* the call reaches the message loop: connected, logged in, INBOX selected,
\* search answered OK
ReachesLoop ==
    /\ HasCredentials
    /\ s_in.srv.connect = "ok"
    /\ s_in.srv.login = "ok"
    /\ s_in.srv.select = "OK"
    /\ s_in.srv.search = "OK"
    /\ s_in.end_date[1] < 9999

\* the records of the messages of a mailbox that can be fetched and parsed,
\* in fetch order
RECURSIVE RecordsOf(_, _)
RecordsOf(mailbox, start_date) ==
    IF mailbox = <<>> THEN <<>>
    ELSE LET r == ProcessMessage(Head(mailbox), start_date)
         IN (IF r.kind = "record" THEN r.rec ELSE <<>>)
            \o RecordsOf(Tail(mailbox), start_date)

\* C4: a retrieval that reaches the message loop ends as a success holding
\* the records of every message that can be fetched and parsed, whatever
\* happens with the other messages of the mailbox.
C4_MessageFailureSkipped ==
    (Returned /\ ReachesLoop)
        => /\ ~s_out.raised
           /\ s_out.data = SortByDateDesc(RecordsOf(s_in.srv.mailbox, s_in.start_date))

\* C5: once the connection object exists, the last two commands of the
\* session are close and logout, each sent once, on every way out of
\* fetch_real_emails.
C5_SessionClosedOnEveryExit ==
    (Returned /\ HasCredentials /\ s_in.srv.connect = "ok")
        => LET log == s_out.log
               n == Len(log)
           IN /\ n >= 3
              /\ log[n - 1] = "close"
              /\ log[n] = "logout"
              /\ \A k \in 1..(n - 2) : log[k] \notin {"close", "logout"}

\* a retrieval that raised in the middle of the message loop, after messages
\* were fetched, and still closed and logged out
C5_Witness ==
    /\ Returned
    /\ s_out.raised
    /\ Len(s_out.fetched) >= 2
    /\ s_out.log[Len(s_out.log)] = "logout"

\* what made a server of FailingServers fail
Cause(srv) ==
    IF srv.connect # "ok" THEN "connection"
    ELSE IF srv.login # "ok" THEN "authentication"
    ELSE "search"

\* what the caller can tell a failure by: the wording the exception is
\* wrapped in and the messagebox _on_fetch_done shows for it
Classification(out) == <<Take(out.exc.text, 3), ErrorDialog(out.exc)>>

\* C6: a failed retrieval is classified differently from every retrieval
\* that fails for another of the three causes (authentication, search,
\* connection).
C6_DistinctFailureOutcomes ==
    (Returned /\ HasCredentials /\ s_in.srv \in FailingServers /\ s_in.end_date[1] < 9999)
        => \A other \in FailingServers :
              Cause(other) # Cause(s_in.srv)
                 => Classification(fetch_real_emails(s_in.email_var, s_in.password_var,
                                                     s_in.server_var, s_in.start_date,
                                                     s_in.end_date, other))
                    # Classification(s_out)

\* the records of a list that carry the date d, in the order of the list
WithDate(items, d) == SelectSeq(items, LAMBDA it : it.date = d)

\* C9: the list a live retrieval returns is sorted newest first, and the
\* records of one timestamp keep the order they were fetched in.
C9_SortedNewestFirstStable ==
    (Returned /\ ~s_out.raised)
        => LET data == s_out.data
               fetched == RecordsOf(s_in.srv.mailbox, s_in.start_date)
           IN /\ \A i, j \in 1..Len(data) : i < j => ~DtLess(data[i].date, data[j].date)
              /\ \A k \in 1..Len(fetched) :
                    WithDate(data, fetched[k].date) = WithDate(fetched, fetched[k].date)

\* a returned list where two different records share a timestamp, a third
\* one is newer, and the newer one was fetched last
C9_Witness ==
    /\ Returned
    /\ ~s_out.raised
    /\ Len(s_out.data) = 3
    /\ s_out.data[2].date = s_out.data[3].date
    /\ s_out.data[2] # s_out.data[3]
    /\ DtLess(s_out.data[2].date, s_out.data[1].date)
    /\ <<s_out.data[1]>> = ProcessMessage(s_in.srv.mailbox[3], s_in.start_date).rec

\* the number of the day y-m-d, counted by the civil calendar
DayNumber(y, m, d) ==
    LET a == (14 - m) \div 12
        yy == y + 4800 - a
        mm == m + 12 * a - 3
    IN d + (153 * mm + 2) \div 5 + 365 * yy + yy \div 4 - yy \div 100 + yy \div 400 - 32045

\* C10: the one search a retrieval sends has SINCE on the start day and
\* BEFORE on the day after the end day, a day of the calendar.
C10_SearchWindow ==
    (Returned /\ s_out.criteria # <<>>)
        => LET since == ImapDay(s_out.criteria[1].since)
               before == ImapDay(s_out.criteria[1].before)
           IN /\ Len(s_out.criteria) = 1
              /\ since = <<s_in.start_date[1], s_in.start_date[2], s_in.start_date[3]>>
              /\ before[2] \in 1..12
              /\ before[3] \in 1..31
              /\ DayNumber(before[1], before[2], before[3])
                   = DayNumber(s_in.end_date[1], s_in.end_date[2], s_in.end_date[3]) + 1
              /\ DayNumber(before[1], before[2], 1) + before[3] - 1
                   < DayNumber(IF before[2] = 12 THEN before[1] + 1 ELSE before[1],
                               IF before[2] = 12 THEN 1 ELSE before[2] + 1, 1)

\* a search whose end day is the last day of a year
C10_Witness ==
    /\ Returned
    /\ s_out.criteria # <<>>
    /\ s_in.end_date[2] = 12
    /\ s_in.end_date[3] = 31
    /\ ImapDay(s_out.criteria[1].before)[1] = s_in.end_date[1] + 1

(***************************************************************************)
(* Properties of the application (Spec, DashSpec).                         *)
(***************************************************************************)
\* the retrieval of worker i has been started and its completion callback
\* has not run yet
InFlight(i) == workers[i].cb \in {"none", "queued"}

\* C1: at most one retrieval is in flight.
C1_AtMostOneInFlight ==
    Cardinality({i \in 1..Len(workers) : InFlight(i)}) <= 1

\* every worker has ended and the event loop has run every callback
Quiescent ==
    /\ after_queue = <<>>
    /\ \A i \in 1..Len(workers) : workers[i].pc = "done"

\* C2: once every worker has ended and every scheduled callback has run,
\* each accepted retrieval has delivered its result through _on_fetch_done
\* and the coordinator is idle: indicator hidden, button enabled.
C2_EveryRetrievalDelivers ==
    Quiescent
        => /\ \A i \in 1..Len(workers) : workers[i].cb = "delivered"
           /\ ~loading
           /\ ~fetch_button_disabled

\* the event loop runs the callback of a retrieval that succeeded
SuccessDelivery ==
    /\ after_queue # <<>>
    /\ ~workers[Head(after_queue)].raised
    /\ after_queue' = Tail(after_queue)

\* the event loop runs _on_fetch_done with an error
FailureDelivery ==
    /\ after_queue # <<>>
    /\ workers[Head(after_queue)].raised
    /\ after_queue' = Tail(after_queue)
    /\ workers'[Head(after_queue)].cb = "delivered"

\* C3: no step of a retrieval other than the delivery of a success, and in
\* particular the delivery of an error, changes emails_data (records and
\* search blobs), filtered_emails or the last applied filter.
C3_FailureLeavesDataUntouched ==
    [][((workers' # workers \/ FailureDelivery) /\ ~SuccessDelivery)
          => UNCHANGED <<emails_data, filtered_emails, last_filter>>]_vars

\* an error has just been delivered while a collection is installed and a
\* query that narrows it is applied
C3_Witness ==
    /\ dialog = "Error: Failed to fetch emails"
    /\ status_label = Status("Error occurred", 0)
    /\ emails_data # <<>>
    /\ last_filter.set
    /\ Len(filtered_emails) < Len(emails_data)
    /\ \E i \in 1..Len(workers) : workers[i].raised /\ workers[i].cb = "delivered"

DateErrorDialogs ==
    {"Error: Please select both start and end dates.",
     "Error: Invalid date format. Use YYYY-MM-DD.",
     "Error: Start date cannot be after end date."}

\* dt is a day of the calendar
IsDay(dt) == dt[2] \in 1..12 /\ dt[3] \in 1..31 /\ dt[1] \in 1..9999

\* C7: a fetch_emails call that shows a date error starts no worker,
\* schedules nothing and leaves the coordinator state, the collection and
\* the filtered view alone; and every worker that is started holds two
\* dates with start <= end.
C7_InvalidDatesRejected ==
    [][/\ (dialog' \in DateErrorDialogs /\ dialog' # dialog)
            => UNCHANGED <<workers, after_queue, status_label, loading,
                           fetch_button_disabled, emails_data, filtered_emails,
                           last_filter>>
       /\ \A i \in 1..Len(workers') :
             i > Len(workers)
                => /\ IsDay(workers'[i].start_date)
                   /\ IsDay(workers'[i].end_date)
                   /\ ~DtLess(workers'[i].end_date, workers'[i].start_date)]_vars

\* the order error is on screen, a collection is installed and nothing is
\* running
C7_Witness ==
    /\ dialog = "Error: Start date cannot be after end date."
    /\ emails_data # <<>>
    /\ ~loading
    /\ \A i \in 1..Len(workers) : ~InFlight(i)

\* s holds nothing but whitespace
Blank(s) == \A k \in 1..Len(s) : IsSpace(s[k])

\* worker i runs its retrieval in this step
Runs(i) == workers[i].pc = "running" /\ workers'[i].pc # "running"

\* C8: a live retrieval that runs while the address or the password is
\* blank fails without a single command sent to a server and without a
\* change of the collection, at the retrieval and at the delivery of its
\* failure; a demo retrieval succeeds whatever the two fields hold.
C8_MissingCredentials ==
    [][/\ \A i \in 1..Len(workers) :
             Runs(i)
                => IF workers[i].use_demo
                   THEN /\ ~workers'[i].raised
                        /\ workers'[i].cb = "queued"
                   ELSE (Blank(email_var) \/ Blank(password_var))
                           => /\ workers'[i].raised
                              /\ workers'[i].log = <<>>
                              /\ workers'[i].host = ""
                              /\ workers'[i].cb = "queued"
                              /\ UNCHANGED emails_data
       /\ FailureDelivery => UNCHANGED emails_data]_vars

\* a live retrieval has just failed for an address of spaces only, while a
\* collection is installed
C8_Witness ==
    /\ email_var = <<" ">>
    /\ password_var = <<"p">>
    /\ emails_data # <<>>
    /\ \E i \in 1..Len(workers) :
          /\ ~workers[i].use_demo
          /\ workers[i].raised
          /\ workers[i].cb = "queued"
          /\ workers[i].log = <<>>
          /\ workers[i].exc.text[1] = "Email"

(***************************************************************************)
(* Further properties of one live retrieval (SessionSpec).                 *)
(***************************************************************************)
\* the messages of the mailbox that were fetched with data and parsed
Kept(mailbox) == SelectSeq(mailbox, LAMBDA m : m.fetch = "OK" /\ m.parses)

\* the instant, as <<day number, second of the day>> in UTC, of the wall
\* time dt in a zone offset seconds ahead of UTC
InstantOf(dt, offset) ==
    <<DayNumber(dt[1], dt[2], dt[3]) + (dt[4] - offset) \div 86400,
      (dt[4] - offset) % 86400>>

\* dt is a datetime of the datetime type
IsDatetime(dt) ==
    /\ dt[1] \in 1..9999
    /\ dt[2] \in 1..12
    /\ dt[3] \in 1..31
    /\ dt[4] \in 0..86399

\* the local time of the header's instant is a datetime of year 1..9999
Representable(date) ==
    LET day == InstantOf(date.dt, date.offset - LocalUtcOffset)[1]
    IN day >= DayNumber(1, 1, 1) /\ day <= DayNumber(9999, 12, 31)

\* the timestamp rec carries is the one the Date header of m calls for
TimestampFor(m, rec, start_date) ==
    IF m.date.kind # "ok" THEN rec.date = start_date
    ELSE IF ~m.date.aware THEN rec.date = m.date.dt
    ELSE IF Representable(m.date)
    THEN InstantOf(rec.date, LocalUtcOffset) = InstantOf(m.date.dt, m.date.offset)
    ELSE rec.date = start_date

Commands(log) == SelectSeq(log, LAMBDA c : c \notin {"close", "logout"})

\* the commands that change nothing in the mailbox: with INBOX selected
\* read-only neither fetch nor close changes a flag
ReadOnlyCommands ==
    {"connect", "login", "select_readonly", "search", "fetch", "close", "logout"}

\* C13: the commands of a retrieval are, in this order, connect, login,
\* select INBOX read-only, search and the fetches; login follows an opened
\* connection, the one search follows a select answered OK, a fetch follows
\* a search answered OK, no identifier is fetched twice, and no command
\* changes the mailbox.
C13_CommandOrder ==
    Returned
        => LET cmds == Commands(s_out.log)
               srv == s_in.srv
           IN /\ \A k \in 1..Len(cmds) :
                    cmds[k] = IF k <= 4
                              THEN <<"connect", "login", "select_readonly", "search">>[k]
                              ELSE "fetch"
              /\ Len(cmds) >= 2 => srv.connect = "ok"
              /\ Len(cmds) >= 4 => srv.login = "ok" /\ srv.select = "OK"
              /\ Len(cmds) >= 5 => srv.search = "OK"
              /\ Len(s_out.criteria) = (IF Len(cmds) >= 4 THEN 1 ELSE 0)
              /\ Len(s_out.fetched) = (IF Len(cmds) >= 5 THEN Len(cmds) - 4 ELSE 0)
              /\ \A i, j \in 1..Len(s_out.fetched) :
                    /\ s_out.fetched[i] \in 1..Len(srv.mailbox)
                    /\ i # j => s_out.fetched[i] # s_out.fetched[j]
              /\ \A k \in 1..Len(s_out.log) : s_out.log[k] \in ReadOnlyCommands

\* a session of nine commands: three fetches, one of them without data
C13_Witness ==
    /\ Returned
    /\ Len(s_out.log) = 9
    /\ Len(s_out.fetched) = 3
    /\ \E j \in 1..3 : s_in.srv.mailbox[j] = FetchEmptyMsg

\* C14: a search that is answered OK without identifiers ends the retrieval
\* as a success with the empty list, with no fetch sent and the session
\* closed and logged out.
C14_EmptySearchIsSuccess ==
    (Returned /\ ReachesLoop /\ SearchIds(s_in.srv.mailbox) = <<>>)
        => /\ ~s_out.raised
           /\ s_out.exc = NoExc
           /\ s_out.data = <<>>
           /\ s_out.fetched = <<>>
           /\ s_out.log = <<"connect", "login", "select_readonly", "search",
                            "close", "logout">>

\* a retrieval from an empty mailbox has returned
C14_Witness ==
    /\ Returned
    /\ ReachesLoop
    /\ s_in.srv.mailbox = <<>>
    /\ ~s_out.raised
    /\ Len(s_out.criteria) = 1
    /\ Len(s_out.log) = 6

(***************************************************************************)
(* Further properties of the application (Spec, DashSpec).                 *)
(***************************************************************************)
\* rec is the record src with its search blob: the four text fields in
\* lower case, joined by newlines
Indexed(rec, src) ==
    /\ rec.name = src.name
    /\ rec.email = src.email
    /\ rec.subject = src.subject
    /\ rec.body = src.body
    /\ rec.date = src.date
    /\ rec.search_blob = Lower(src.name) \o <<"\n">> \o Lower(src.email) \o <<"\n">>
                         \o Lower(src.subject) \o <<"\n">> \o Lower(src.body)

\* C15: the step that delivers a success installs the delivered records in
\* their order, each with its search blob, makes the filtered view the
\* whole new collection, and only with that signals completion (status
\* text and dialog); whenever the collection changes, every record of the
\* new collection carries the blob of its own fields.
C15_InstallBuildsIndex ==
    [][/\ SuccessDelivery
            => LET w == workers[Head(after_queue)]
               IN /\ Len(emails_data') = Len(w.data)
                  /\ \A k \in 1..Len(w.data) : Indexed(emails_data'[k], w.data[k])
                  /\ filtered_emails' = emails_data'
                  /\ status_label' = w.status
                  /\ dialog' = IF w.data = <<>> THEN "No Emails" ELSE "Success"
                  /\ ~loading'
       /\ emails_data' # emails_data
            => \A k \in 1..Len(emails_data') : Indexed(emails_data'[k], emails_data'[k])]_vars

\* a larger collection has just been installed while the dashboard still
\* shows the rows of the one before
C15_Witness ==
    /\ dialog = "Success"
    /\ dashboard_open
    /\ Len(emails_data) = 3
    /\ filtered_emails = emails_data
    /\ Len(tree) = 2
    /\ status_label = Status("Demo: Found emails", 3)

\* what worker w hands to the event loop when the credential fields and the
\* server profile hold e, p and sv and the server is srv
OutcomeWith(w, e, p, sv, srv) ==
    Scheduled(w, IF w.use_demo
                 THEN DemoResult(load_demo_emails_between(DemoDataset, w.start_date,
                                                          w.end_date))
                 ELSE LiveResult(fetch_real_emails(e, p, sv, w.start_date,
                                                   w.end_date, srv)))

\* C16: the step a worker thread takes reads none of the foreground's
\* variables: what it hands to the event loop is what it would hand over
\* whatever the credential fields and the server profile hold when it runs,
\* and the step changes nothing but the worker and the callback queue.
C16_WorkerTouchesNoForegroundState ==
    [][\A i \in 1..Len(workers) :
          Runs(i)
             => /\ UNCHANGED <<FormVars, WidgetVars, DataVars, DashVars>>
                /\ \A e \in EmailTexts, p \in PasswordTexts, sv \in ServerNames :
                      \E srv \in CoordServers :
                         workers'[i] = OutcomeWith(workers[i], e, p, sv, srv)]_vars

\* C17: whenever the query applied last is the empty one (nothing but
\* whitespace), under any scope and after any installs and queries before,
\* the filtered view is the whole current collection, record by record.
C17_EmptyQueryGivesAll ==
    (last_filter.set /\ last_filter.q = <<>>) => filtered_emails = emails_data

\* the empty query has been applied under scope Subject to an installed
\* collection of three records, all of them in the view and in the table
C17_Witness ==
    /\ last_filter = [set |-> TRUE, q |-> <<>>, filter_type |-> "Subject"]
    /\ dashboard_open
    /\ search_var = <<>>
    /\ Len(emails_data) = 3
    /\ Len(filtered_emails) = 3
    /\ Len(tree) = 3

(***************************************************************************)
(* Properties of one query evaluation (QuerySpec).                         *)
(***************************************************************************)
\* s contains q when letter case is ignored
ContainsIgnoringCase(q, s) ==
    \E i \in 0..(Len(s) - Len(q)) :
        \A j \in 1..Len(q) : LowerChar(s[i + j]) = LowerChar(q[j])

\* the record has the text in the field (for Sender: the fields) of the scope
FieldHas(rec, text, scope) ==
    CASE scope = "Sender" -> \/ ContainsIgnoringCase(text, rec.name)
                             \/ ContainsIgnoringCase(text, rec.email)
      [] scope = "Subject" -> ContainsIgnoringCase(text, rec.subject)
      [] scope = "Body" -> ContainsIgnoringCase(text, rec.body)

\* the query of the search entry has been evaluated under the selected scope
Evaluated == last_filter.set

\* C18 (amended): for every search text q and every collection, a query with
\* scope Sender returns exactly the records whose display name or address
\* contains q stripped of its leading and trailing whitespace, letter case
\* ignored; scope Subject exactly those whose subject does, scope Body
\* exactly those whose body does; no other field influences the result.
C18_ScopedQueryMatchesStrippedText ==
    (Evaluated /\ filter_type_var \in {"Sender", "Subject", "Body"}) =>
        filtered_emails =
            SelectSeq(emails_data,
                      LAMBDA rec : FieldHas(rec, Strip(search_var), filter_type_var))

\* C18 as stated: the result is exactly the records whose field contains the
\* query string itself, leading and trailing whitespace included.
C18_ScopedQueryMatchesTextAsTyped ==
    (Evaluated /\ filter_type_var \in {"Sender", "Subject", "Body"}) =>
        filtered_emails =
            SelectSeq(emails_data,
                      LAMBDA rec : FieldHas(rec, search_var, filter_type_var))

\* " Hi" has been evaluated under scope Subject on two records, one of which
\* has the subject "Hi" and was returned
C18_Witness ==
    /\ Evaluated
    /\ search_var = <<" ", "H", "i">>
    /\ filter_type_var = "Subject"
    /\ Len(emails_data) = 2
    /\ Len(filtered_emails) = 1
    /\ filtered_emails[1].subject = <<"H", "i">>

\* the records the query of the search entry returns under another scope
Under(scope) == FilterResult(emails_data, search_var, scope)

\* C19: for every query and every collection, the result under scope All
\* contains every record the same query returns under scope Subject, under
\* scope Body and under scope Sender.
C19_AllContainsEveryScope ==
    (Evaluated /\ filter_type_var = "All") =>
        \A scope \in {"Subject", "Body", "Sender"} :
            \A k \in 1..Len(Under(scope)) :
                \E j \in 1..Len(filtered_emails) : filtered_emails[j] = Under(scope)[k]

\* "hi" has been evaluated under scope All on a record that has it in the
\* subject and a record that has it in the body: All returned both, Subject
\* and Body one each, Sender none
C19_Witness ==
    /\ Evaluated
    /\ filter_type_var = "All"
    /\ search_var = <<"h", "i">>
    /\ Len(filtered_emails) = 2
    /\ Len(Under("Subject")) = 1
    /\ Len(Under("Body")) = 1
    /\ Under("Subject") # Under("Body")
    /\ Under("Sender") = <<>>

(***************************************************************************)
(* Properties of the repeated query (DashSpec).                            *)
(***************************************************************************)
\* the steps in which apply_search_filter is called, by what they leave
\* behind: a debounce timer has fired, the refresh dialog has come up, the
\* scope selection has changed, or (<Return>) nothing but the view changed
TimerStep ==
    /\ search_after.pending
    /\ search_after' = Fired(search_after)
    /\ dashboard_open' = dashboard_open

UnreferencedTimerStep(timer) ==
    /\ timer \in search_after.unreferenced
    /\ search_after' = [search_after EXCEPT !.unreferenced = @ \ {timer}]

RefreshStep == dialog = "none" /\ dialog' = "Refresh"

SelectStep == dashboard_open /\ dashboard_open' /\ filter_type_var' # filter_type_var

ReturnStep ==
    /\ <<filtered_emails, tree, last_filter>>' # <<filtered_emails, tree, last_filter>>
    /\ UNCHANGED <<FormVars, WidgetVars, emails_data, dashboard_open, search_var,
                   filter_type_var, search_after, ThreadVars>>

\* the pair is the one applied last
Repeats(text, scope) ==
    /\ last_filter.set
    /\ last_filter.q = Lower(Strip(text))
    /\ last_filter.filter_type = scope

ViewUntouched == UNCHANGED <<filtered_emails, tree, last_filter>>

RECURSIVE IsSubsequence(_, _)
IsSubsequence(a, b) ==
    IF a = <<>> THEN TRUE
    ELSE IF b = <<>> THEN FALSE
    ELSE IF Head(a) = Head(b) /\ IsSubsequence(Tail(a), Tail(b)) THEN TRUE
    ELSE IsSubsequence(a, Tail(b))

\* the orders in which the table may show the records of a view: newest
\* first, records of one timestamp in the order of the view
DisplayOrders(view) ==
    {p \in [1..Len(view) -> 1..Len(view)] :
        /\ \A k, l \in 1..Len(view) : k # l => p[k] # p[l]
        /\ \A k, l \in 1..Len(view) :
              k < l => \/ DtLess(view[p[l]].date, view[p[k]].date)
                       \/ view[p[k]].date = view[p[l]].date /\ p[k] < p[l]}

\* C21: the result of every query lists the matching records in the order
\* of the collection, and the table shows that result newest first, records
\* of equal timestamp in the order they have in the result (fetch order).
C21_FilterKeepsOrderDisplaySortStable ==
    Evaluated =>
        /\ IsSubsequence(filtered_emails, emails_data)
        /\ \E p \in DisplayOrders(filtered_emails) :
              tree = [k \in 1..Len(filtered_emails) |-> Row(filtered_emails[p[k]])]

\* "hi" has been evaluated under scope Subject on two records of one
\* timestamp that both match: the table shows them in collection order
C21_Witness ==
    /\ Evaluated
    /\ filter_type_var = "Subject"
    /\ search_var = <<"h", "i">>
    /\ Len(emails_data) = 2
    /\ emails_data[1].date = emails_data[2].date
    /\ emails_data[1].subject # emails_data[2].subject
    /\ filtered_emails = emails_data
    /\ tree = Rows(emails_data)

(***************************************************************************)
(* Properties of the debounce (DashSpec).                                  *)
(***************************************************************************)
\* the number of filter evaluations root.after holds for the search
PendingEvaluations ==
    (IF search_after.pending THEN 1 ELSE 0) + Cardinality(search_after.unreferenced)

\* a keystroke or set_search_query has scheduled an evaluation in this step
Schedules ==
    \E kind \in {"do_filter", "set_query"}, query \in SearchTexts :
        search_after' = Rescheduled(search_after, kind, query)

\* C22: at any time at most one debounced evaluation is pending; a keystroke
\* or set_search_query leaves its own evaluation as the only one pending;
\* and an evaluation that runs is the one scheduled last, never one that a
\* later keystroke has superseded.
C22_DebounceCoalesces ==
    [][/\ PendingEvaluations' <= 1
       /\ Schedules => PendingEvaluations' = 1
       /\ \A timer \in search_after.unreferenced :
             UnreferencedTimerStep(timer) => ~search_after.pending]_vars

(***************************************************************************)
(* Properties of the records (DashSpec).                                   *)
(***************************************************************************)
\* the collection the retrieval whose success is being delivered produced
Produced == workers[Head(after_queue)].data

\* new is old with the field search_blob added (or set again) and every
\* other field as it was
BlobAdded(old, new) ==
    /\ DOMAIN new = DOMAIN old \cup {"search_blob"}
    /\ \A field \in DOMAIN old \ {"search_blob"} : new[field] = old[field]

\* C23 (amended): no operation after a retrieval has produced a record
\* changes its name, email, subject, body or date; the index build of an
\* install adds the one field '_search_blob' to it and nothing else adds a
\* field; the installed collection's membership and order change only when
\* a new collection is installed.
C23_FieldsKeptBlobAdded ==
    [][IF SuccessDelivery
       THEN /\ Len(emails_data') = Len(Produced)
            /\ \A k \in 1..Len(Produced) : BlobAdded(Produced[k], emails_data'[k])
       ELSE emails_data' = emails_data]_vars

\* C23 as stated: the installed records are the produced records, with no
\* field changed and none added, and nothing but an install changes the
\* collection.
C23_RecordsImmutable ==
    [][IF SuccessDelivery THEN emails_data' = Produced
       ELSE emails_data' = emails_data]_vars

\* three records have been installed and indexed and a query has been
\* evaluated on them
C23_Witness ==
    /\ Len(emails_data) = 3
    /\ \A k \in 1..3 : "search_blob" \in DOMAIN emails_data[k]
    /\ last_filter.set
    /\ last_filter.q = <<"h", "i">>
    /\ last_filter.filter_type = "Subject"
    /\ Len(filtered_emails) = 1
    /\ dashboard_open

(***************************************************************************)
(* Properties of the demo retrieval (DemoSpec).                            *)
(***************************************************************************)
\* the day of the datetime, as a day number
DayOf(dt) == DayNumber(dt[1], dt[2], dt[3])

\* the record's date lies between the start day at 00:00:00 and the end day
\* at 23:59:59
InRange(item, start_date, end_date) ==
    /\ DayOf(start_date) <= DayOf(item.date)
    /\ DayOf(item.date) <= DayOf(end_date)
    /\ item.date[4] \in 0..86399

\* C24: for every range, the demo retrieval returns exactly the records of
\* the dataset dated from the start day at 00:00:00 to the end day at
\* 23:59:59, each with name, email, subject, body and date, newest first.
C24_DemoRetrievalContract ==
    Returned =>
        /\ ~s_out.raised
        /\ s_out.data = SelectSeq(s_in.dataset,
                                  LAMBDA item : InRange(item, s_in.start_date, s_in.end_date))
        /\ \A k \in 1..Len(s_out.data) :
              {"name", "email", "subject", "body", "date"} \subseteq DOMAIN s_out.data[k]
        /\ \A k, l \in 1..Len(s_out.data) :
              k < l => ~DtLess(s_out.data[k].date, s_out.data[l].date)

\* the range from noon of 2024-02-29 to midnight of 2024-03-01 has returned
\* the record of 2024-02-29 23:59:59 behind the two of 2024-03-01, the one of
\* 00:00:00 included
C24_Witness ==
    /\ Returned
    /\ s_in.dataset = DemoDataset
    /\ s_in.start_date = <<2024, 2, 29, 43200>>
    /\ s_in.end_date = <<2024, 3, 1, 0>>
    /\ Len(s_out.data) = 3
    /\ s_out.data[3].date = <<2024, 2, 29, 86399>>
    /\ s_out.data[2].date = <<2024, 3, 1, 0>>

(***************************************************************************)
(* Properties of the record body (NormalizeSpec).                          *)
(***************************************************************************)
\* the text/plain text of the message, part after part
RECURSIVE PlainText(_)
PlainText(parts) ==
    IF parts = <<>> THEN <<>>
    ELSE (IF Head(parts).ctype = "text/plain" THEN Head(parts).payload ELSE <<>>)
         \o PlainText(Tail(parts))

\* the first n characters of s
FirstChars(s, n) == [i \in 1..(IF Len(s) < n THEN Len(s) ELSE n) |-> s[i]]

\* C25: the extracted body is the text of the message cut at 2000
\* characters; the record's body is its first 200 characters and an
\* ellipsis when it is longer than 200 and the extracted body itself
\* otherwise; and the extracted body can be had from the record.
C25_PreviewAndFullBody ==
    (Returned /\ s_out.kind = "record") =>
        LET extracted == extract_email_body(s_in.m)
            rec == s_out.rec[1]
        IN /\ extracted = FirstChars(PlainText(s_in.m.parts), 2000)
           /\ rec.body = IF Len(extracted) > 200
                         THEN FirstChars(extracted, 200) \o <<".", ".", ".">>
                         ELSE extracted
           /\ \E field \in DOMAIN rec : rec[field] = extracted

(***************************************************************************)
(* Properties of the view after a request (DashSpec).                      *)
(***************************************************************************)
\* the view right after the step is the part of the collection that matches
\* the requested text under the requested scope
ViewMatches(text, scope) == filtered_emails' = FilterResult(emails_data', text, scope)

\* C26: right after a query has been requested (by a debounce timer, a
\* refresh or a scope selection), whatever was installed, closed or reopened
\* since the same query was requested before, the filtered view is the part
\* of the current collection that matches the requested text and scope.
C26_ViewMatchesRequestedQuery ==
    [][/\ TimerStep => ViewMatches(IF search_after.kind = "do_filter" THEN search_var
                                   ELSE search_after.query, filter_type_var)
       /\ \A timer \in search_after.unreferenced :
             UnreferencedTimerStep(timer)
                => ViewMatches(IF timer.kind = "do_filter" THEN search_var
                               ELSE timer.query, filter_type_var)
       /\ RefreshStep => ViewMatches(search_var, filter_type_var)
       /\ SelectStep => ViewMatches(search_var, filter_type_var')]_vars

\* C27: after refresh_dashboard has run on an open dashboard, the rows of
\* the table are the current collection filtered by the text of the search
\* entry under the selected scope, newest first, whatever was installed
\* since the table was populated last.
C27_RefreshShowsCurrentCollection ==
    [][RefreshStep =>
          tree' = Rows(SortByDateDesc(FilterResult(emails_data', search_var',
                                                   filter_type_var')))]_vars

(***************************************************************************)
(* Properties of concurrent retrievals (Spec).                             *)
(***************************************************************************)
\* the retrieval started j-th has had its success installed
Installed(j) == workers[j].cb = "delivered" /\ ~workers[j].raised

\* C28: the result of a retrieval is never installed over the result of a
\* retrieval started after it, so that once all have completed the
\* collection is that of the one started last.
C28_LatestStartedWins ==
    [][SuccessDelivery =>
          \A j \in (Head(after_queue) + 1)..Len(workers) : ~Installed(j)]_vars

\* what the worker can hand to the event loop, over the servers it can meet,
\* when it runs with the credential fields and the server profile at e, p, sv
OutcomesWith(w, e, p, sv) == {OutcomeWith(w, e, p, sv, srv) : srv \in CoordServers}

\* C29: a live retrieval uses the address, the password and the server
\* profile of the moment fetch_emails was called: no step taken while the
\* retrieval waits to run (an edit of a credential field in particular)
\* changes the host it contacts, the credentials it sends or what it returns.
C29_CredentialsAsOfInvocation ==
    [][\A i \in 1..Len(workers) :
          (workers[i].pc = "running" /\ ~workers[i].use_demo /\ workers'[i] = workers[i])
             => OutcomesWith(workers[i], email_var', password_var', server_var')
                = OutcomesWith(workers[i], email_var, password_var, server_var)]_vars

(***************************************************************************)
(* Properties of the view (DashSpec).                                      *)
(***************************************************************************)
\* C30: in every reachable state the filtered view is a subsequence of the
\* installed collection: each of its records is a record of the collection,
\* in the same relative order.
C30_ViewIsSubsequenceOfCollection == IsSubsequence(filtered_emails, emails_data)

\* a query has narrowed a collection of three records to its second record,
\* and a second retrieval has been delivered
C30_Witness ==
    /\ Len(emails_data) = 3
    /\ filtered_emails = <<emails_data[2]>>
    /\ last_filter.set
    /\ \E i \in 1..Len(workers) : workers[i].cb = "delivered" /\ i > 1

====
